---- MODULE Spec2Model ----
(***************************************************************************)
(* A model of events.py: Event, InverseEvent, AnyEvent and AllEvent, the   *)
(* registration protocol between them, and the cascade of _set / _clear    *)
(* calls down the graph of dependents, run by preemptive threads.          *)
(*                                                                         *)
(* Every thread has a call stack of frames.  One step of a thread is at    *)
(* most one access to state that other threads can touch without the lock  *)
(* (a flag read or write), preceded by the lock acquisition that guards it *)
(* and followed by the returns and lock releases that need no further      *)
(* access.  A thread that cannot take a lock stays where it is.            *)
(***************************************************************************)
EXTENDS Integers, Sequences, FiniteSets, TLC

\* Bounds of the model.
MaxNew == 1
MaxAncestors == 2

\* Two application threads.
Threads == {1, 2}

\* The gate graphs the model starts from: each is a list of constructor calls
\* run one after the other by one thread, "Event" for Event() and a
\* combination kind with the positions of its ancestors in the list.
E == [kind |-> "Event", anc |-> <<>>]
Combo(k, a) == [kind |-> k, anc |-> a]
Scenarios ==
    { <<E, E>>,
      <<E, Combo("Inverse", <<1>>)>>,
      <<E, E, Combo("Any", <<1, 2>>)>>,
      <<E, E, Combo("All", <<1, 2>>)>>,
      <<E, E, E, Combo("Any", <<1, 2>>), Combo("All", <<4, 3>>)>>,
      <<E, E, Combo("Inverse", <<1>>), Combo("Any", <<1, 2>>),
        Combo("All", <<3, 4>>)>> }

MaxScenario ==
    CHOOSE n \in {Len(s) : s \in Scenarios} : \A s \in Scenarios : Len(s) <= n
Gates == 1..(MaxScenario + MaxNew)
NoGate == 0
NoThread == 0

VARIABLES
    kind,        \* gate -> "None" (not allocated), "Event", "Inverse", "Any", "All"
    ancestors,   \* gate -> self._ancestors, a sequence of gates
    flag,        \* gate -> self._event.is_set()
    dependents,  \* gate -> keys of self._dependents
    lockOwner,   \* gate -> thread holding self._lock, or NoThread
    lockCount,   \* gate -> recursion level of self._lock
    refs,        \* gates whose constructor has returned to the application
    stack,       \* thread -> call stack, innermost frame last
    ret,         \* thread -> how its last call ended: "none", "ok", "UsageError",
                 \*           "BodyError" (the exception of a with block's body),
                 \*           "True" (the result of wait)
    destructed,  \* gates on which a destruct() call has returned normally
    held         \* history: the AllEvents whose _set_callback is running and
                 \* whose ancestors have all been set at one time since it
                 \* took the lock

vars == <<kind, ancestors, flag, dependents, lockOwner, lockCount, refs,
          stack, ret, destructed, held>>

gateVars == <<kind, ancestors, flag, dependents, lockOwner, lockCount, refs,
              destructed>>

----------------------------------------------------------------------------
\* Helpers.

Range(s) == {s[i] : i \in 1..Len(s)}

Front(s) == SubSeq(s, 1, Len(s) - 1)

Top(t) == stack[t][Len(stack[t])]

\* A frame: the function, the gate it runs on (self), where it is, the
\* dependents its fan-out has still to call and a loop index.
Frame(fn, g, pc) == [fn |-> fn, g |-> g, pc |-> pc, todo |-> {}, i |-> 1]

At(t, fn, pc) == stack[t] # <<>> /\ Top(t).fn = fn /\ Top(t).pc = pc

\* The stack of t with its innermost frame replaced by f / and callee called.
Goto(t, f) == Append(Front(stack[t]), f)

Call(t, f, callee) == Append(Append(Front(stack[t]), f), callee)

\* The combinator of a combination kind over the flags fl of ancestors a.
Combinator(k, a, fl) ==
    CASE k = "Inverse" -> \A i \in 1..Len(a) : ~fl[a[i]]
      [] k = "Any"     -> \E i \in 1..Len(a) : fl[a[i]]
      [] k = "All"     -> \A i \in 1..Len(a) : fl[a[i]]

----------------------------------------------------------------------------
\* _atomic and threading.RLock.

\* The functions that run inside "with self._lock".
AtomicFns == {"_set", "_clear", "_set_callback", "_clear_callback"}

\* A lock that is not re-entrant: threading.Lock for threading.RLock.
LockFree_NonReentrant(t, g) == lockOwner[g] = NoThread

\* acquire() by t returns at once: the lock is free or t's own.
LockFree(t, g) == lockOwner[g] \in {NoThread, t}

\* A frame that is inside its "with self._lock".
HoldsLock(f) == (f.fn \in AtomicFns /\ f.pc # "acquire") \/ f.fn = "__init__"

\* A frame with nothing left to do but leave its with block and return.
Finished(f) ==
    \/ f.pc \in {"release", "return", "exit", "reraise"}
    \/ f.pc = "fanout" /\ f.todo = {}

\* The end of a step of thread t.  ns is its stack after the step, acq the
\* locks the step took, raised whether the step raised UsageError.  Finished
\* frames return, innermost first, each leaving its with block; an exception
\* leaves every frame, since nothing catches it.  When the outermost frame
\* returns the call is over: the application gets the new event from a
\* constructor, and sees the result.  A with block whose __exit__ has
\* returned raises the exception of its body again, if there was one.
\* The step reads the flags it leaves behind, for the history held.
Keep(ns, raised) ==
    CHOOSE k \in 0..Len(ns) :
        /\ \A j \in (k + 1)..Len(ns) : raised \/ Finished(ns[j])
        /\ k = 0 \/ ~(raised \/ Finished(ns[k]))

Step(t, ns, acq, raised) ==
    \E keep \in {Keep(ns, raised)} :
        LET popped == (keep + 1)..Len(ns)
            rel(g) == Cardinality({j \in popped : HoldsLock(ns[j]) /\ ns[j].g = g})
        IN  /\ stack' = [stack EXCEPT ![t] = SubSeq(ns, 1, keep)]
            /\ lockCount' = [g \in Gates |->
                                lockCount[g] + (IF g \in acq THEN 1 ELSE 0) - rel(g)]
            /\ lockOwner' = [g \in Gates |->
                                IF lockCount'[g] = 0 THEN NoThread
                                ELSE IF g \in acq THEN t ELSE lockOwner[g]]
            /\ ret' = [ret EXCEPT ![t] =
                          IF keep > 0 THEN @
                          ELSE IF raised THEN "UsageError"
                          ELSE IF ns[1].pc = "reraise" THEN "BodyError"
                          ELSE IF ns[1].fn = "wait" THEN "True"
                          ELSE "ok"]
            /\ refs' = IF raised THEN refs
                       ELSE refs \cup {ns[j].g : j \in {j \in popped : ns[j].fn = "__init__"}}
            /\ destructed' =
                   IF raised THEN destructed
                   ELSE destructed \cup
                            {ns[j].g : j \in {j \in popped : ns[j].fn = "destruct"}}
            /\ held' = {g \in Gates :
                           /\ kind[g] = "All"
                           /\ \E u \in Threads : \E j \in 1..Len(stack'[u]) :
                                 /\ stack'[u][j].fn = "_set_callback"
                                 /\ stack'[u][j].g = g
                                 /\ stack'[u][j].pc # "acquire"
                           /\ \/ g \in held
                              \/ \A i \in 1..Len(ancestors[g]) :
                                    flag'[ancestors[g][i]]}

\* The lock the next step of t has to take, if any.
Wants(t) ==
    IF stack[t] = <<>> THEN NoGate
    ELSE LET f == Top(t)
         IN  IF f.fn \in AtomicFns /\ f.pc = "acquire" THEN f.g
             ELSE IF f.fn = "__init__" /\ f.pc = "register" THEN ancestors[f.g][f.i]
             ELSE IF f.fn = "destruct" /\ f.pc = "loop" /\ f.i <= Len(ancestors[f.g])
                  THEN ancestors[f.g][f.i]
             ELSE NoGate

----------------------------------------------------------------------------
\* The initial state: one of the scenarios, constructed sequentially.  A new
\* Event is clear; a combination event registers on its ancestors and
\* _initialize sets it to its combinator over them.

RECURSIVE InitFlag(_, _)
InitFlag(s, g) ==
    IF s[g].kind = "Event" THEN FALSE
    ELSE Combinator(s[g].kind, s[g].anc,
                    [h \in 1..(g - 1) |-> InitFlag(s, h)])

InitOf(S) ==
    \E s \in S :
        /\ kind = [g \in Gates |-> IF g <= Len(s) THEN s[g].kind ELSE "None"]
        /\ ancestors = [g \in Gates |-> IF g <= Len(s) THEN s[g].anc ELSE <<>>]
        /\ flag = [g \in Gates |-> IF g <= Len(s) THEN InitFlag(s, g) ELSE FALSE]
        /\ dependents = [g \in Gates |->
                            {d \in 1..Len(s) : g \in Range(s[d].anc)}]
        /\ lockOwner = [g \in Gates |-> NoThread]
        /\ lockCount = [g \in Gates |-> 0]
        /\ refs = 1..Len(s)
        /\ stack = [t \in Threads |-> <<>>]
        /\ ret = [t \in Threads |-> "none"]
        /\ destructed = {}
        /\ held = {}

Init == InitOf(Scenarios)

\* The scenarios new events are constructed in.
SmallScenarios == {s \in Scenarios : Len(s) <= 2}

InitSmall == InitOf(SmallScenarios)

----------------------------------------------------------------------------
\* Event.set / Event.clear and _ComboEvent.set / _ComboEvent.clear.

\* The application calls g.set() or g.clear() on an event it holds.
CallSet(t, g) ==
    /\ stack[t] = <<>>
    /\ g \in refs
    /\ stack' = [stack EXCEPT ![t] = <<Frame("set", g, "body")>>]
    /\ UNCHANGED <<gateVars, ret, held>>

CallClear(t, g) ==
    /\ stack[t] = <<>>
    /\ g \in refs
    /\ stack' = [stack EXCEPT ![t] = <<Frame("clear", g, "body")>>]
    /\ UNCHANGED <<gateVars, ret, held>>

\* Event.set: self._set().
EventSet(t) ==
    /\ At(t, "set", "body")
    /\ kind[Top(t).g] = "Event"
    /\ UNCHANGED <<kind, ancestors, flag, dependents>>
    /\ Step(t, Call(t, [Top(t) EXCEPT !.pc = "return"],
                    Frame("_set", Top(t).g, "acquire")), {}, FALSE)

\* Event.clear: self._clear().
EventClear(t) ==
    /\ At(t, "clear", "body")
    /\ kind[Top(t).g] = "Event"
    /\ UNCHANGED <<kind, ancestors, flag, dependents>>
    /\ Step(t, Call(t, [Top(t) EXCEPT !.pc = "return"],
                    Frame("_clear", Top(t).g, "acquire")), {}, FALSE)

\* A combination event without the override: Event.set.
ComboSet_NotOverridden(t) ==
    /\ At(t, "set", "body")
    /\ kind[Top(t).g] # "Event"
    /\ UNCHANGED <<kind, ancestors, flag, dependents>>
    /\ Step(t, Call(t, [Top(t) EXCEPT !.pc = "return"],
                    Frame("_set", Top(t).g, "acquire")), {}, FALSE)

\* _ComboEvent.set: raise UsageError.
ComboSet(t) ==
    /\ At(t, "set", "body")
    /\ kind[Top(t).g] # "Event"
    /\ UNCHANGED <<kind, ancestors, flag, dependents>>
    /\ Step(t, stack[t], {}, TRUE)

\* _ComboEvent.clear: raise UsageError.
ComboClear(t) ==
    /\ At(t, "clear", "body")
    /\ kind[Top(t).g] # "Event"
    /\ UNCHANGED <<kind, ancestors, flag, dependents>>
    /\ Step(t, stack[t], {}, TRUE)

----------------------------------------------------------------------------
\* Event._set / Event._clear.

\* A _set that calls the dependents only when the flag was clear.
_set_OnChange(t) ==
    /\ At(t, "_set", "acquire")
    /\ LockFree(t, Top(t).g)
    /\ flag' = [flag EXCEPT ![Top(t).g] = TRUE]
    /\ Step(t, Goto(t, [Top(t) EXCEPT !.pc = "fanout",
                                      !.todo = IF flag[Top(t).g] THEN {}
                                               ELSE dependents[Top(t).g]]),
            {Top(t).g}, FALSE)
    /\ UNCHANGED <<kind, ancestors, dependents>>

\* with self._lock: self._event.set(), and the loop over the dependents
\* starts.
_set(t) ==
    /\ At(t, "_set", "acquire")
    /\ LockFree(t, Top(t).g)
    /\ flag' = [flag EXCEPT ![Top(t).g] = TRUE]
    /\ Step(t, Goto(t, [Top(t) EXCEPT !.pc = "fanout",
                                      !.todo = dependents[Top(t).g]]),
            {Top(t).g}, FALSE)
    /\ UNCHANGED <<kind, ancestors, dependents>>

\* with self._lock: self._event.clear(), and the loop over the dependents
\* starts.
_clear(t) ==
    /\ At(t, "_clear", "acquire")
    /\ LockFree(t, Top(t).g)
    /\ flag' = [flag EXCEPT ![Top(t).g] = FALSE]
    /\ Step(t, Goto(t, [Top(t) EXCEPT !.pc = "fanout",
                                      !.todo = dependents[Top(t).g]]),
            {Top(t).g}, FALSE)
    /\ UNCHANGED <<kind, ancestors, dependents>>

\* A fan-out that takes the callbacks out of the mapping as it calls them.
SetFanout_Consumes(t) ==
    /\ At(t, "_set", "fanout")
    /\ UNCHANGED <<kind, ancestors, flag>>
    /\ \E d \in Top(t).todo :
        /\ dependents' = [dependents EXCEPT ![Top(t).g] = @ \ {d}]
        /\ Step(t, Call(t, [Top(t) EXCEPT !.todo = @ \ {d}],
                        Frame("_set_callback", d, "acquire")), {}, FALSE)

\* set_function() of the next dependent, in whatever order the dictionary
\* yields them.
SetFanout(t) ==
    /\ At(t, "_set", "fanout")
    /\ UNCHANGED <<kind, ancestors, flag, dependents>>
    /\ \E d \in Top(t).todo :
        Step(t, Call(t, [Top(t) EXCEPT !.todo = @ \ {d}],
                     Frame("_set_callback", d, "acquire")), {}, FALSE)

\* clear_function() of the next dependent.
ClearFanout(t) ==
    /\ At(t, "_clear", "fanout")
    /\ UNCHANGED <<kind, ancestors, flag, dependents>>
    /\ \E d \in Top(t).todo :
        Step(t, Call(t, [Top(t) EXCEPT !.todo = @ \ {d}],
                     Frame("_clear_callback", d, "acquire")), {}, FALSE)

----------------------------------------------------------------------------
\* The callbacks a combination event registers on its ancestors.  Each runs
\* under the event's own lock (@_atomic) and reads the ancestors' flags one
\* is_set() at a time, without their locks.

\* A callback of kind k is about to take its lock, or is between two reads.
InCallback(t, fn, k) ==
    /\ stack[t] # <<>>
    /\ Top(t).fn = fn
    /\ kind[Top(t).g] = k
    /\ \/ Top(t).pc = "acquire" /\ LockFree(t, Top(t).g)
       \/ Top(t).pc = "body"

\* The lock the step takes.
Taken(t) == IF Top(t).pc = "acquire" THEN {Top(t).g} ELSE {}

\* self._set() or self._clear() as the last statement of a callback.
Invoke(t, fn) ==
    Call(t, [Top(t) EXCEPT !.pc = "release"], Frame(fn, Top(t).g, "acquire"))

\* event.is_set() of the ancestor the generator of any() / all() is at.
IsSet(t) == flag[ancestors[Top(t).g][Top(t).i]]

\* One step of "if any(...)" / "if all(...)" in frame Top(t): the value just
\* read either decides it (stops), and the function skips its if body and is
\* at pc done, or the generator goes on to the next ancestor, or it is
\* exhausted and the stack becomes then.
Scan(t, stops, done, then) ==
    IF stops THEN Goto(t, [Top(t) EXCEPT !.pc = done])
    ELSE IF Top(t).i < Len(ancestors[Top(t).g])
    THEN Goto(t, [Top(t) EXCEPT !.pc = IF @ = "acquire" THEN "body" ELSE @,
                                !.i = @ + 1])
    ELSE then

\* InverseEvent._set_callback: self._clear().
InverseSetCallback(t) ==
    /\ InCallback(t, "_set_callback", "Inverse")
    /\ UNCHANGED <<kind, ancestors, flag, dependents>>
    /\ Step(t, Invoke(t, "_clear"), Taken(t), FALSE)

\* InverseEvent._clear_callback: self._set().
InverseClearCallback(t) ==
    /\ InCallback(t, "_clear_callback", "Inverse")
    /\ UNCHANGED <<kind, ancestors, flag, dependents>>
    /\ Step(t, Invoke(t, "_set"), Taken(t), FALSE)

\* A callback that sets the flag as _initialize does, self._event.set(),
\* and so calls no dependent.
AnySetCallback_NoCascade(t) ==
    /\ InCallback(t, "_set_callback", "Any")
    /\ flag' = [flag EXCEPT ![Top(t).g] = TRUE]
    /\ Step(t, Goto(t, [Top(t) EXCEPT !.pc = "release"]), Taken(t), FALSE)
    /\ UNCHANGED <<kind, ancestors, dependents>>

\* AnyEvent._set_callback: self._set().
AnySetCallback(t) ==
    /\ InCallback(t, "_set_callback", "Any")
    /\ UNCHANGED <<kind, ancestors, flag, dependents>>
    /\ Step(t, Invoke(t, "_set"), Taken(t), FALSE)

\* A callback that clears without looking at the ancestors.
AnyClearCallback_NoCheck(t) ==
    /\ InCallback(t, "_clear_callback", "Any")
    /\ UNCHANGED <<kind, ancestors, flag, dependents>>
    /\ Step(t, Invoke(t, "_clear"), Taken(t), FALSE)

\* AnyEvent._clear_callback: one is_set() of
\* "if not any(event.is_set() for event in self._ancestors): self._clear()".
\* any() stops at the first ancestor that is set.
AnyClearCallback(t) ==
    /\ InCallback(t, "_clear_callback", "Any")
    /\ UNCHANGED <<kind, ancestors, flag, dependents>>
    /\ Step(t, Scan(t, IsSet(t), "release", Invoke(t, "_clear")), Taken(t), FALSE)

\* A callback that never sets.
AllSetCallback_Never(t) ==
    /\ InCallback(t, "_set_callback", "All")
    /\ UNCHANGED <<kind, ancestors, flag, dependents>>
    /\ Step(t, Goto(t, [Top(t) EXCEPT !.pc = "release"]), Taken(t), FALSE)

\* A callback that sets without looking at the ancestors.
AllSetCallback_NoCheck(t) ==
    /\ InCallback(t, "_set_callback", "All")
    /\ UNCHANGED <<kind, ancestors, flag, dependents>>
    /\ Step(t, Invoke(t, "_set"), Taken(t), FALSE)

\* AllEvent._set_callback: one is_set() of
\* "if all(event.is_set() for event in self._ancestors): self._set()".
\* all() stops at the first ancestor that is clear.
AllSetCallback(t) ==
    /\ InCallback(t, "_set_callback", "All")
    /\ UNCHANGED <<kind, ancestors, flag, dependents>>
    /\ Step(t, Scan(t, ~IsSet(t), "release", Invoke(t, "_set")), Taken(t), FALSE)

\* AllEvent._clear_callback: self._clear().
AllClearCallback(t) ==
    /\ InCallback(t, "_clear_callback", "All")
    /\ UNCHANGED <<kind, ancestors, flag, dependents>>
    /\ Step(t, Invoke(t, "_clear"), Taken(t), FALSE)

----------------------------------------------------------------------------
\* _ComboEvent.__init__.

ComboKinds == {"Inverse", "Any", "All"}

\* The ancestor lists a constructor may be given: events the application
\* holds, InverseEvent taking exactly one.
AncestorLists(k) ==
    LET n == IF k = "Inverse" THEN 1 ELSE MaxAncestors
    IN  UNION {[1..m -> refs] : m \in 1..n}

\* The new object: the first of the gates kept for new events that is not
\* allocated yet.
NewGates == {g \in Gates : g > MaxScenario}

NewGate ==
    CHOOSE g \in NewGates :
        kind[g] = "None" /\ \A h \in NewGates : h < g => kind[h] # "None"

\* k(*a): Event.__init__ makes the flag, the lock and the empty mapping,
\* self._ancestors is stored, and "with self._lock" takes the new lock,
\* which no other thread can reach yet.
CallConstruct(t, k, a) ==
    /\ stack[t] = <<>>
    /\ \E g \in NewGates : kind[g] = "None"
    /\ LET g == NewGate
       IN  /\ kind' = [kind EXCEPT ![g] = k]
           /\ ancestors' = [ancestors EXCEPT ![g] = a]
           /\ flag' = [flag EXCEPT ![g] = FALSE]
           /\ dependents' = [dependents EXCEPT ![g] = {}]
           /\ lockOwner' = [lockOwner EXCEPT ![g] = t]
           /\ lockCount' = [lockCount EXCEPT ![g] = 1]
           /\ stack' = [stack EXCEPT ![t] = <<Frame("__init__", g, "register")>>]
    /\ UNCHANGED <<refs, ret, destructed, held>>

\* A _register without @_atomic: it does not take the ancestor's lock.
_register_NoLock(t) ==
    /\ At(t, "__init__", "register")
    /\ UNCHANGED <<kind, ancestors, flag>>
    /\ LET f == Top(t)
           a == ancestors[f.g]
           event == a[f.i]
       IN  /\ IF f.g \in dependents[event]
              THEN /\ UNCHANGED dependents
                   /\ Step(t, stack[t], {}, TRUE)
              ELSE /\ dependents' = [dependents EXCEPT ![event] = @ \cup {f.g}]
                   /\ Step(t, Goto(t, IF f.i < Len(a) THEN [f EXCEPT !.i = @ + 1]
                                      ELSE [f EXCEPT !.pc = "initialize", !.i = 1]),
                           {}, FALSE)

\* A constructor that registers on its first ancestor only.
_register_FirstOnly(t) ==
    /\ At(t, "__init__", "register")
    /\ UNCHANGED <<kind, ancestors, flag>>
    /\ LET f == Top(t)
           a == ancestors[f.g]
           event == a[f.i]
       IN  /\ LockFree(t, event)
           /\ IF f.g \in dependents[event]
              THEN /\ UNCHANGED dependents
                   /\ Step(t, stack[t], {}, TRUE)
              ELSE /\ dependents' = [dependents EXCEPT ![event] =
                                        IF f.i = 1 THEN @ \cup {f.g} ELSE @]
                   /\ Step(t, Goto(t, IF f.i < Len(a) THEN [f EXCEPT !.i = @ + 1]
                                      ELSE [f EXCEPT !.pc = "initialize", !.i = 1]),
                           {}, FALSE)

\* event._register(self, self._set_callback, self._clear_callback) for the
\* next ancestor, under the ancestor's lock (@_atomic): UsageError if self
\* is a key of its mapping already, else self becomes one.  After the last
\* ancestor comes _initialize.
_register(t) ==
    /\ At(t, "__init__", "register")
    /\ UNCHANGED <<kind, ancestors, flag>>
    /\ LET f == Top(t)
           a == ancestors[f.g]
           event == a[f.i]
       IN  /\ LockFree(t, event)
           /\ IF f.g \in dependents[event]
              THEN /\ UNCHANGED dependents
                   /\ Step(t, stack[t], {}, TRUE)
              ELSE /\ dependents' = [dependents EXCEPT ![event] = @ \cup {f.g}]
                   /\ Step(t, Goto(t, IF f.i < Len(a) THEN [f EXCEPT !.i = @ + 1]
                                      ELSE [f EXCEPT !.pc = "initialize", !.i = 1]),
                           {}, FALSE)

\* self._set() from _initialize, after which the constructor is done.
InitInvoke(t, fn) ==
    Call(t, [Top(t) EXCEPT !.pc = "exit"], Frame(fn, Top(t).g, "acquire"))

\* An _initialize that sets the new event when its ancestor is set.
InverseInitialize_Same(t) ==
    /\ At(t, "__init__", "initialize")
    /\ kind[Top(t).g] = "Inverse"
    /\ UNCHANGED <<kind, ancestors, flag, dependents>>
    /\ Step(t, Scan(t, ~IsSet(t), "exit", InitInvoke(t, "_set")), {}, FALSE)

\* InverseEvent._initialize: one is_set() of
\* "if all(not event.is_set() for event in self._ancestors): self._set()".
InverseInitialize(t) ==
    /\ At(t, "__init__", "initialize")
    /\ kind[Top(t).g] = "Inverse"
    /\ UNCHANGED <<kind, ancestors, flag, dependents>>
    /\ Step(t, Scan(t, IsSet(t), "exit", InitInvoke(t, "_set")), {}, FALSE)

\* AnyEvent._initialize: one is_set() of
\* "if any(event.is_set() for event in self._ancestors): self._event.set()".
\* The write of the new event's own flag goes with the read that decides it:
\* no other thread reads that flag before the constructor returns.
AnyInitialize(t) ==
    /\ At(t, "__init__", "initialize")
    /\ kind[Top(t).g] = "Any"
    /\ flag' = [flag EXCEPT ![Top(t).g] = @ \/ IsSet(t)]
    /\ Step(t, Scan(t, IsSet(t), "exit", Goto(t, [Top(t) EXCEPT !.pc = "exit"])),
            {}, FALSE)
    /\ UNCHANGED <<kind, ancestors, dependents>>

\* An _initialize with any() where all() belongs.
AllInitialize_Any(t) ==
    /\ At(t, "__init__", "initialize")
    /\ kind[Top(t).g] = "All"
    /\ flag' = [flag EXCEPT ![Top(t).g] = @ \/ IsSet(t)]
    /\ Step(t, Scan(t, IsSet(t), "exit", Goto(t, [Top(t) EXCEPT !.pc = "exit"])),
            {}, FALSE)
    /\ UNCHANGED <<kind, ancestors, dependents>>

\* AllEvent._initialize: one is_set() of
\* "if all(event.is_set() for event in self._ancestors): self._event.set()".
\* The flag is written when the last ancestor has been read as set.
AllInitialize(t) ==
    /\ At(t, "__init__", "initialize")
    /\ kind[Top(t).g] = "All"
    /\ flag' = [flag EXCEPT ![Top(t).g] =
                   @ \/ (IsSet(t) /\ Top(t).i = Len(ancestors[Top(t).g]))]
    /\ Step(t, Scan(t, ~IsSet(t), "exit", Goto(t, [Top(t) EXCEPT !.pc = "exit"])),
            {}, FALSE)
    /\ UNCHANGED <<kind, ancestors, dependents>>

----------------------------------------------------------------------------
\* destruct.

\* The application calls g.destruct() on an event it holds.
CallDestruct(t, g) ==
    /\ stack[t] = <<>>
    /\ g \in refs
    /\ stack' = [stack EXCEPT ![t] = <<Frame("destruct", g, "loop")>>]
    /\ UNCHANGED <<gateVars, ret, held>>

\* An _unregister that pops the key if it is there and never raises.
_unregister_Silent(t) ==
    /\ At(t, "destruct", "loop")
    /\ UNCHANGED <<kind, ancestors, flag>>
    /\ LET f == Top(t)
           a == ancestors[f.g]
           event == a[f.i]
       IN  /\ LockFree(t, event)
           /\ dependents' = [dependents EXCEPT ![event] = @ \ {f.g}]
           /\ Step(t, Goto(t, IF f.i < Len(a) THEN [f EXCEPT !.i = @ + 1]
                              ELSE [f EXCEPT !.pc = "return"]),
                   {}, FALSE)

\* An _unregister without @_atomic: it does not take the ancestor's lock.
_unregister_NoLock(t) ==
    /\ At(t, "destruct", "loop")
    /\ UNCHANGED <<kind, ancestors, flag>>
    /\ LET f == Top(t)
           a == ancestors[f.g]
           event == a[f.i]
       IN  /\ IF f.g \notin dependents[event]
              THEN /\ UNCHANGED dependents
                   /\ Step(t, stack[t], {}, TRUE)
              ELSE /\ dependents' = [dependents EXCEPT ![event] = @ \ {f.g}]
                   /\ Step(t, Goto(t, IF f.i < Len(a) THEN [f EXCEPT !.i = @ + 1]
                                      ELSE [f EXCEPT !.pc = "return"]),
                           {}, FALSE)

\* _ComboEvent.destruct: event._unregister(self) for the next ancestor,
\* under the ancestor's lock (@_atomic): UsageError if self is no key of its
\* mapping, else the key is popped.
_unregister(t) ==
    /\ At(t, "destruct", "loop")
    /\ UNCHANGED <<kind, ancestors, flag>>
    /\ LET f == Top(t)
           a == ancestors[f.g]
           event == a[f.i]
       IN  /\ LockFree(t, event)
           /\ IF f.g \notin dependents[event]
              THEN /\ UNCHANGED dependents
                   /\ Step(t, stack[t], {}, TRUE)
              ELSE /\ dependents' = [dependents EXCEPT ![event] = @ \ {f.g}]
                   /\ Step(t, Goto(t, IF f.i < Len(a) THEN [f EXCEPT !.i = @ + 1]
                                      ELSE [f EXCEPT !.pc = "return"]),
                           {}, FALSE)

----------------------------------------------------------------------------
\* _ContextManagerMixin: "with g: body".

\* The application enters a with block on a combination event it holds:
\* __enter__ returns self.
CallWith(t, g) ==
    /\ stack[t] = <<>>
    /\ g \in refs
    /\ stack' = [stack EXCEPT ![t] = <<Frame("with", g, "body")>>]
    /\ UNCHANGED <<gateVars, ret, held>>

\* An __exit__ that inherits the destruct of the mixin, which does nothing.
WithBody_NoDestruct(t, raises) ==
    /\ At(t, "with", "body")
    /\ UNCHANGED <<kind, ancestors, flag, dependents>>
    /\ Step(t, Goto(t, [Top(t) EXCEPT !.pc = IF raises THEN "reraise" ELSE "exit"]),
            {}, FALSE)

\* The body of the block ends, normally or with an exception, and __exit__
\* calls self.destruct(); it returns None, so that an exception of the body
\* is raised again when destruct has returned.
WithBody(t, raises) ==
    /\ At(t, "with", "body")
    /\ UNCHANGED <<kind, ancestors, flag, dependents>>
    /\ Step(t, Call(t, [Top(t) EXCEPT !.pc = IF raises THEN "reraise" ELSE "exit"],
                    Frame("destruct", Top(t).g, "loop")), {}, FALSE)

----------------------------------------------------------------------------
\* Event.wait, without timeout: self._event.wait() of threading.Event
\* blocks until the flag is set and returns True.

\* The application calls g.wait() on an event it holds.
CallWait(t, g) ==
    /\ stack[t] = <<>>
    /\ g \in refs
    /\ stack' = [stack EXCEPT ![t] = <<Frame("wait", g, "blocked")>>]
    /\ UNCHANGED <<gateVars, ret, held>>

\* The waiting thread sees the flag set and returns True.
WaitReturn(t) ==
    /\ At(t, "wait", "blocked")
    /\ flag[Top(t).g]
    /\ UNCHANGED <<kind, ancestors, flag, dependents>>
    /\ Step(t, Goto(t, [Top(t) EXCEPT !.pc = "return"]), {}, FALSE)

----------------------------------------------------------------------------
\* The specifications.

\* The steps of a call of set or clear, once made.
Cascade(t) ==
    \/ EventSet(t) \/ EventClear(t)
    \/ _set(t) \/ _clear(t) \/ SetFanout(t) \/ ClearFanout(t)
    \/ InverseSetCallback(t) \/ InverseClearCallback(t)
    \/ AnySetCallback(t) \/ AnyClearCallback(t)
    \/ AllSetCallback(t) \/ AllClearCallback(t)

\* set and clear calls, on any event, on a graph of events that stays as
\* constructed.
NextFixed ==
    \E t \in Threads :
        \/ \E g \in Gates : CallSet(t, g) \/ CallClear(t, g)
        \/ ComboSet(t) \/ ComboClear(t)
        \/ Cascade(t)

\* set and clear calls on the base events while combination events are
\* constructed and destructed.
Next ==
    \E t \in Threads :
        \/ \E g \in Gates : kind[g] = "Event" /\ (CallSet(t, g) \/ CallClear(t, g))
        \/ Cascade(t)
        \/ \E k \in ComboKinds : \E a \in AncestorLists(k) : CallConstruct(t, k, a)
        \/ _register(t)
        \/ InverseInitialize(t) \/ AnyInitialize(t) \/ AllInitialize(t)
        \/ \E g \in Gates : kind[g] # "Event" /\ CallDestruct(t, g)
        \/ _unregister(t)

SpecFixed == Init /\ [][NextFixed]_vars

\* A thread inside a call goes on whenever it can: a thread that could take
\* a lock again and again does take it at some time (fair scheduling, fair
\* locks).  Nothing obliges the application to make a call.
\* The graph is the one in which an event is reached by two paths, and the
\* calls are those on its base events.
DiamondScenarios ==
    {s \in Scenarios :
        \E g \in 1..Len(s) : \E i, j \in 1..Len(s[g].anc) :
            s[s[g].anc[i]].kind = "Inverse" /\ s[s[g].anc[j]].kind = "Any"}

InitDiamond == InitOf(DiamondScenarios)

NextCascade ==
    \E t \in Threads :
        \/ \E g \in Gates : kind[g] = "Event" /\ (CallSet(t, g) \/ CallClear(t, g))
        \/ Cascade(t)

FairSpecFixed ==
    /\ InitDiamond
    /\ [][NextCascade]_vars
    /\ \A t \in Threads : SF_vars(Cascade(t))

Spec == InitSmall /\ [][Next]_vars

\* With blocks on the combination event of the graphs that have just one,
\* while set, clear and destruct are called.
WithScenarios ==
    {s \in Scenarios :
        Cardinality({g \in 1..Len(s) : s[g].kind \in ComboKinds}) = 1}

InitWith == InitOf(WithScenarios)

NextWith ==
    \E t \in Threads :
        \/ \E g \in Gates : kind[g] = "Event" /\ (CallSet(t, g) \/ CallClear(t, g))
        \/ Cascade(t)
        \/ \E g \in Gates : kind[g] \in ComboKinds /\ CallWith(t, g)
        \/ \E raises \in BOOLEAN : WithBody(t, raises)
        \/ \E g \in Gates : kind[g] \in ComboKinds /\ CallDestruct(t, g)
        \/ _unregister(t)

SpecWith == InitWith /\ [][NextWith]_vars

\* Threads that wait on the combination events of the same graphs while set
\* and clear are called on the base events.  A thread inside a call goes on
\* whenever it can, and a waiting thread whose event stays set wakes up.
InitWait == InitOf(WithScenarios)

NextWait ==
    \E t \in Threads :
        \/ \E g \in Gates : kind[g] = "Event" /\ (CallSet(t, g) \/ CallClear(t, g))
        \/ Cascade(t)
        \/ \E g \in Gates : kind[g] \in ComboKinds /\ CallWait(t, g)
        \/ WaitReturn(t)

FairSpecWait ==
    /\ InitWait
    /\ [][NextWait]_vars
    /\ \A t \in Threads : SF_vars(Cascade(t)) /\ WF_vars(WaitReturn(t))

\* set and clear calls on the base events of a graph with an AllEvent over
\* three ancestors, one of them the InverseEvent of another.
TripleScenarios ==
    { <<E, E, Combo("Inverse", <<1>>), Combo("All", <<1, 3, 2>>),
        Combo("Any", <<1, 2>>)>> }

InitTriple == InitOf(TripleScenarios)

SpecTriple == InitTriple /\ [][NextCascade]_vars

----------------------------------------------------------------------------
\* What the properties speak of.

\* No call is in progress on any thread.
Quiescent == \A t \in Threads : stack[t] = <<>>

\* A combination event whose constructor has returned and that is a
\* dependent of every one of its ancestors.
Registered(g) ==
    /\ kind[g] \in ComboKinds
    /\ g \in refs
    /\ \A i \in 1..Len(ancestors[g]) : g \in dependents[ancestors[g][i]]

\* The flag of g is its combinator over the current flags of its ancestors.
Consistent(g) == flag[g] = Combinator(kind[g], ancestors[g], flag)

\* Thread t waits for a lock that thread u holds.
WaitsFor(t, u) ==
    /\ t # u
    /\ Wants(t) # NoGate
    /\ lockOwner[Wants(t)] = u

\* Some threads each wait for a lock held by another of them.
CircularWait ==
    \E C \in SUBSET Threads :
        /\ C # {}
        /\ \A t \in C : \E u \in C : WaitsFor(t, u)

----------------------------------------------------------------------------
\* C1: whenever no call is in progress, every constructed and registered
\* combination event, at any depth, has the flag its combinator gives over
\* the current flags of its ancestors, whatever the interleaving of the set
\* and clear calls of the threads was.
C1_DerivedConsistent ==
    Quiescent => \A g \in Gates : Registered(g) => Consistent(g)

\* Two threads have made calls, and an AllEvent over an InverseEvent and an
\* AnyEvent (two levels, reached from one base event by two paths) is set.
C1_Witness ==
    /\ Quiescent
    /\ \A t \in Threads : ret[t] = "ok"
    /\ \E g \in Gates :
        /\ Registered(g) /\ kind[g] = "All" /\ flag[g]
        /\ \E i, j \in 1..Len(ancestors[g]) :
            /\ kind[ancestors[g][i]] = "Inverse"
            /\ kind[ancestors[g][j]] = "Any"

----------------------------------------------------------------------------
\* C2: on a fixed graph of constructed events, with threads calling set and
\* clear concurrently, no threads ever wait for each other's locks in a
\* circle, and under fair scheduling every call returns.
C2_NoDeadlockAndReturns ==
    /\ []~CircularWait
    /\ \A t \in Threads : (stack[t] # <<>>) ~> (stack[t] = <<>>)

\* A thread in a cascade waits for the lock of an event reached by two
\* paths, which the other thread holds.
C2_Witness ==
    \E t, u \in Threads :
        /\ WaitsFor(t, u)
        /\ Len(stack[t]) > 2
        /\ Cardinality({a \in Gates : Wants(t) \in dependents[a]}) > 1

----------------------------------------------------------------------------
\* Thread t is in the constructor of an event over two different ancestors,
\* one of them an ancestor of the other.
ConstructsOverRelated(t) ==
    /\ stack[t] # <<>>
    /\ stack[t][1].fn = "__init__"
    /\ LET a == ancestors[stack[t][1].g]
       IN  /\ Len(a) = 2
           /\ a[1] # a[2]
           /\ a[1] \in Range(ancestors[a[2]]) \/ a[2] \in Range(ancestors[a[1]])

\* C3: with a combination event constructed while other threads call set
\* and clear on its ancestors, one of them a descendant of another in either
\* order of the list, no threads wait for each other's locks in a circle.
C3_NoCircularWait ==
    (\E t \in Threads : ConstructsOverRelated(t)) => ~CircularWait

----------------------------------------------------------------------------
\* The base events.
IsEvent(g) == kind[g] = "Event"

\* C4: whenever no call is in progress, an AnyEvent over two events a and b,
\* constructed in any state of a and b, is set exactly if a or b is set:
\* with one of the two cleared it stays set, with both cleared it is clear.
C4_AnyIsOr ==
    Quiescent =>
        \A g \in Gates :
            (Registered(g) /\ kind[g] = "Any" /\ Len(ancestors[g]) = 2) =>
                flag[g] = (flag[ancestors[g][1]] \/ flag[ancestors[g][2]])

\* An AnyEvent constructed over two base events, all calls returned, one
\* ancestor set and the other clear, and the AnyEvent set.
C4_Witness ==
    /\ Quiescent
    /\ \E g \in NewGates :
        /\ Registered(g) /\ kind[g] = "Any" /\ Len(ancestors[g]) = 2
        /\ IsEvent(ancestors[g][1]) /\ IsEvent(ancestors[g][2])
        /\ ~flag[ancestors[g][1]] /\ flag[ancestors[g][2]]
        /\ flag[g]

\* C5: whenever no call is in progress, an AllEvent over two events a and b,
\* constructed in any state of a and b, is set exactly if a and b are set.
C5_AllIsAnd ==
    Quiescent =>
        \A g \in Gates :
            (Registered(g) /\ kind[g] = "All" /\ Len(ancestors[g]) = 2) =>
                flag[g] = (flag[ancestors[g][1]] /\ flag[ancestors[g][2]])

\* An AllEvent constructed over two base events, all calls returned, only
\* one ancestor set, and the AllEvent clear.
C5_Witness ==
    /\ Quiescent
    /\ \E g \in NewGates :
        /\ Registered(g) /\ kind[g] = "All" /\ Len(ancestors[g]) = 2
        /\ IsEvent(ancestors[g][1]) /\ IsEvent(ancestors[g][2])
        /\ flag[ancestors[g][1]] /\ ~flag[ancestors[g][2]]
        /\ ~flag[g]

\* C6: whenever no call is in progress, an InverseEvent, constructed in
\* either state of its ancestor, is set exactly if its ancestor is clear.
C6_InverseIsNot ==
    Quiescent =>
        \A g \in Gates :
            (Registered(g) /\ kind[g] = "Inverse") =>
                flag[g] = ~flag[ancestors[g][1]]

\* An InverseEvent constructed over a base event, its ancestor set and the
\* InverseEvent clear.
C6_Witness ==
    /\ Quiescent
    /\ \E g \in NewGates :
        /\ Registered(g) /\ kind[g] = "Inverse"
        /\ IsEvent(ancestors[g][1])
        /\ flag[ancestors[g][1]] /\ ~flag[g]

\* C7: whenever no call is in progress, AllEvent(AnyEvent(a, b), c) over
\* base events a, b and c is set exactly if (a or b) and c.
C7_Chained ==
    Quiescent =>
        \A g \in Gates :
            (/\ Registered(g) /\ kind[g] = "All" /\ Len(ancestors[g]) = 2
             /\ kind[ancestors[g][1]] = "Any" /\ IsEvent(ancestors[g][2])) =>
                LET y == ancestors[g][1]
                    a == ancestors[y][1]
                    b == ancestors[y][2]
                    c == ancestors[g][2]
                IN  flag[g] = ((flag[a] \/ flag[b]) /\ flag[c])

\* The outer event is set with only one of a and b set.
C7_Witness ==
    /\ Quiescent
    /\ \E g \in Gates :
        /\ Registered(g) /\ kind[g] = "All" /\ Len(ancestors[g]) = 2
        /\ kind[ancestors[g][1]] = "Any" /\ IsEvent(ancestors[g][2])
        /\ flag[g]
        /\ ~flag[ancestors[ancestors[g][1]][1]]

----------------------------------------------------------------------------
\* C8: set() or clear() on a combination event raises UsageError and changes
\* no flag, no dependents mapping and no lock, and calls no callback.
C8_ComboSetRaises ==
    [][\A t \in Threads :
          (/\ stack[t] # <<>>
           /\ Top(t).fn \in {"set", "clear"}
           /\ Top(t).pc = "body"
           /\ kind[Top(t).g] # "Event"
           /\ stack'[t] # stack[t]) =>
              /\ stack'[t] = <<>>
              /\ ret'[t] = "UsageError"
              /\ UNCHANGED gateVars]_vars

\* A call has raised UsageError, there being a combination event that is set
\* and has a dependent.
C8_Witness ==
    /\ \E t \in Threads : ret[t] = "UsageError"
    /\ \E g \in Gates : kind[g] \in ComboKinds /\ flag[g] /\ dependents[g] # {}

----------------------------------------------------------------------------
\* C9: of the destruct() calls on a combination event, one after the other
\* or at the same time, only the first to return returns normally, and then
\* no ancestor holds an entry for the event; a call that raises UsageError
\* has changed no mapping; and no call removes an entry of another
\* dependent.
C9_DestructOnce ==
    [][\A t \in Threads :
          (/\ stack[t] # <<>>
           /\ Top(t).fn = "destruct"
           /\ stack'[t] # stack[t]) =>
              LET g == Top(t).g
              IN  /\ \A a \in Gates : dependents'[a] \cup {g} = dependents[a] \cup {g}
                  /\ g \in destructed =>
                        /\ stack'[t] = <<>>
                        /\ ret'[t] = "UsageError"
                  /\ (stack'[t] = <<>> /\ ret'[t] = "UsageError") =>
                        /\ Top(t).i = 1
                        /\ dependents' = dependents
                  /\ (stack'[t] = <<>> /\ ret'[t] = "ok") =>
                        \A a \in Gates : g \notin dependents'[a]]_vars

\* A destruct() has returned normally and another has raised UsageError,
\* while an ancestor of the destructed event still has its other dependent.
C9_Witness ==
    /\ Quiescent
    /\ ret[1] = "ok" /\ ret[2] = "UsageError"
    /\ \A g \in NewGates : kind[g] # "None" => g \in refs
    /\ \E g \in destructed :
        \E i \in 1..Len(ancestors[g]) : dependents[ancestors[g][i]] # {}

----------------------------------------------------------------------------
\* A combination event whose constructor has raised.
Failed(g) ==
    /\ kind[g] \in ComboKinds
    /\ g \notin refs
    /\ \A t \in Threads : stack[t] = <<>> \/ stack[t][1].g # g

\* C10: a constructor that is given the same ancestor twice raises
\* UsageError and leaves no entry for the failed event in the dependents
\* mapping of any event.
C10_FailedLeavesNoEntry ==
    \A g \in Gates : Failed(g) => \A a \in Gates : g \notin dependents[a]

----------------------------------------------------------------------------
\* C11: once destruct() of a combination event has returned, no ancestor has
\* an entry for it and no step of any call, a cascade that ran during the
\* destruct included, changes its flag; and a step of destruct changes no
\* flag and removes no entry of another dependent.
C11_DestructedIsDetached ==
    [][/\ \A g \in destructed :
            /\ flag'[g] = flag[g]
            /\ \A a \in Gates : g \notin dependents[a] /\ g \notin dependents'[a]
       /\ \A t \in Threads :
            (/\ stack[t] # <<>>
             /\ Top(t).fn = "destruct"
             /\ stack'[t] # stack[t]) =>
                /\ flag' = flag
                /\ \A a \in Gates : dependents[a] \ {Top(t).g} \subseteq dependents'[a]]_vars

\* An event has been destructed, set() calls on its ancestor have returned
\* since, and its flag is no longer what its combinator gives.
C11_Witness ==
    /\ Quiescent
    /\ \A t \in Threads : ret[t] = "ok"
    /\ \E g \in destructed : ~Consistent(g) /\ flag[ancestors[g][1]]

----------------------------------------------------------------------------
\* The locks thread t holds.
HeldBy(t) == {g \in Gates : lockOwner[g] = t}

\* Event h is a registered dependent of g, directly or through other
\* events.  An event is constructed after its ancestors.
RECURSIVE DependsOn(_, _)
DependsOn(h, g) ==
    \E a \in Gates :
        /\ a < h
        /\ h \in dependents[a]
        /\ a = g \/ DependsOn(a, g)

\* C14: a thread that holds the lock of an event and is about to take the
\* lock of another event takes the lock of a registered dependent of the
\* first, in set, clear, construction and destruct.
C14_LockOrder ==
    \A t \in Threads :
        Wants(t) # NoGate =>
            \A x \in HeldBy(t) : x # Wants(t) => DependsOn(Wants(t), x)

----------------------------------------------------------------------------
\* C15: whatever the interleaving of the set and clear calls on its
\* ancestors, the flag of an AnyEvent does not change from set to clear at a
\* moment when the flag of one of its ancestors is set.
C15_AnyNotClearedWhileSet ==
    [][\A g \in Gates :
          (kind[g] = "Any" /\ flag[g] /\ ~flag'[g]) =>
              \A i \in 1..Len(ancestors[g]) : ~flag[ancestors[g][i]]]_vars

----------------------------------------------------------------------------
\* C16: an event constructed while other threads call set and clear on its
\* ancestors loses no update: once the constructor and the calls have
\* returned, its flag is its combinator over the flags its ancestors have
\* then.
C16_ConstructLosesNoUpdate ==
    Quiescent =>
        \A g \in NewGates :
            (g \in refs /\ g \notin destructed) => Consistent(g)

\* A new AllEvent over two base events, which were clear when the model
\* started, is set: the constructor and set() calls on both ancestors have
\* returned.
C16_Witness ==
    /\ Quiescent
    /\ \A t \in Threads : ret[t] = "ok"
    /\ \E g \in NewGates :
        /\ g \in refs /\ g \notin destructed
        /\ kind[g] = "All" /\ flag[g]
        /\ Len(ancestors[g]) = 2 /\ ancestors[g][1] # ancestors[g][2]
        /\ \A i \in 1..2 : IsEvent(ancestors[g][i])

----------------------------------------------------------------------------
\* Thread t is in the loop over the dependents of g, in _set or _clear.
InFanout(t, g) ==
    \E j \in 1..Len(stack[t]) :
        /\ stack[t][j].fn \in {"_set", "_clear"}
        /\ stack[t][j].g = g
        /\ stack[t][j].pc = "fanout"

\* The dependents the fan-out of g by t has still to call.
Pending(t, g) ==
    UNION {stack[t][j].todo : j \in {j \in 1..Len(stack[t]) : stack[t][j].g = g}}

\* C17: the flag and the dependents mapping of an event change only in a
\* step of a thread that has the event's lock, never while another thread
\* holds it; a thread holds the lock of an event all through its fan-out,
\* during which neither the flag nor the mapping changes, and the callbacks
\* it has still to call are those of dependents registered when it took the
\* lock.
C17_MutationUnderLock ==
    [][\A g \in Gates :
          /\ (flag'[g] # flag[g] \/ dependents'[g] # dependents[g]) =>
                \E t \in Threads :
                    stack'[t] # stack[t] /\ lockOwner[g] \in {NoThread, t}
          /\ \A t \in Threads :
                InFanout(t, g) =>
                    /\ lockOwner[g] = t
                    /\ Pending(t, g) \subseteq dependents[g]
                    /\ flag'[g] = flag[g]
                    /\ dependents'[g] = dependents[g]]_vars

\* While a thread is in the fan-out of set() on an event, the other thread
\* is in a constructor and waits for the lock of that event to register.
C17_Witness ==
    \E t, u \in Threads :
        /\ t # u
        /\ \E g \in Gates : InFanout(t, g) /\ Wants(u) = g
        /\ At(u, "__init__", "register")

----------------------------------------------------------------------------
\* The step of thread t is the start of the fan-out on an event that has
\* dependents: all of them are still to call.
StartsFanout(t) ==
    /\ Len(stack'[t]) = Len(stack[t])
    /\ stack'[t][Len(stack[t])] =
           [Top(t) EXCEPT !.pc = "fanout", !.todo = dependents[Top(t).g]]

\* The step of thread t calls callback cb of one dependent still to call,
\* which is then no longer to call.
CallsOne(t, cb) ==
    \E d \in Top(t).todo :
        stack'[t] = Call(t, [Top(t) EXCEPT !.todo = @ \ {d}],
                         Frame(cb, d, "acquire"))

\* C18: _set on an event that is set already, and _clear on one that is
\* clear already, still call the set (clear) callback of every registered
\* dependent, once each; and whenever no call is in progress every
\* combination event has the flag its combinator gives.
C18_ReFires ==
    /\ [][\A t \in Threads :
            stack'[t] # stack[t] =>
                /\ (At(t, "_set", "acquire") /\ flag[Top(t).g]
                        /\ dependents[Top(t).g] # {}) => StartsFanout(t)
                /\ (At(t, "_clear", "acquire") /\ ~flag[Top(t).g]
                        /\ dependents[Top(t).g] # {}) => StartsFanout(t)
                /\ At(t, "_set", "fanout") => CallsOne(t, "_set_callback")
                /\ At(t, "_clear", "fanout") => CallsOne(t, "_clear_callback")]_vars
    /\ [](Quiescent => \A g \in Gates : Registered(g) => Consistent(g))

\* Only one thread has made calls.  It is in the fan-out of a set() on a
\* base event and about to run the callback of an AllEvent that is set: the
\* base event was set before this call.
C18_Witness ==
    \E t \in Threads :
        /\ Len(stack[t]) = 3
        /\ stack[t][1].fn = "set" /\ ret[t] = "ok"
        /\ stack[t][2].fn = "_set" /\ stack[t][2].pc = "fanout"
        /\ stack[t][3].fn = "_set_callback" /\ stack[t][3].pc = "acquire"
        /\ kind[stack[t][3].g] = "All" /\ flag[stack[t][3].g]
        /\ \A u \in Threads \ {t} : stack[u] = <<>> /\ ret[u] = "none"

----------------------------------------------------------------------------
\* C20: a step of a set() or clear() call on event G changes no dependents
\* mapping and no flag other than those of G and of the registered
\* dependents of G, direct or through other events: the flags of the
\* ancestors of G and of events unrelated to G stay as they are.
C20_Frame ==
    [][\A t \in Threads :
          (/\ stack[t] # <<>>
           /\ stack[t][1].fn \in {"set", "clear"}
           /\ stack'[t] # stack[t]) =>
              /\ dependents' = dependents
              /\ \A h \in Gates :
                    flag'[h] # flag[h] =>
                        h = stack[t][1].g \/ DependsOn(h, stack[t][1].g)]_vars

\* A set() on a base event has cascaded two levels down and is about to set
\* the flag of an event that is clear, while another base event is set.
C20_Witness ==
    \E t \in Threads :
        /\ Len(stack[t]) = 6
        /\ stack[t][1].fn = "set"
        /\ Top(t).fn = "_set" /\ Top(t).pc = "acquire" /\ ~flag[Top(t).g]
        /\ \E h \in Gates : IsEvent(h) /\ h # stack[t][1].g /\ flag[h]

----------------------------------------------------------------------------
\* The step of thread t leaves a with block.
LeavesWith(t) ==
    /\ stack[t] # <<>>
    /\ stack[t][1].fn = "with"
    /\ stack'[t] = <<>>

\* After the step no event has an entry for g.
Unregistered(g) == \A a \in Gates : g \notin dependents'[a]

\* C12 as stated: when a with block on a combination event is left, the body
\* having ended normally or with an exception, no ancestor has an entry for
\* the event, and an exception of the body is raised to the caller.
C12_ScopedExit ==
    [][\A t \in Threads :
          LeavesWith(t) =>
              /\ Unregistered(stack[t][1].g)
              /\ stack[t][1].pc = "reraise" => ret'[t] = "BodyError"]_vars

\* C12 amended: when a with block on a combination event is left, either
\* __exit__ raises UsageError, another destruct() call having unregistered
\* the event first, or no ancestor has an entry for the event, an exception
\* of the body is raised to the caller and a body that ended normally
\* leaves the block normally.
C12_ScopedExitUnlessDestructed ==
    [][\A t \in Threads :
          LeavesWith(t) =>
              LET g == stack[t][1].g
              IN  IF ret'[t] = "UsageError"
                  THEN \/ g \in destructed
                       \/ \E u \in Threads \ {t} :
                            stack[u] # <<>> /\ Top(u).fn = "destruct" /\ Top(u).g = g
                  ELSE /\ Unregistered(g)
                       /\ g \in destructed'
                       /\ ret'[t] = IF stack[t][1].pc = "reraise"
                                    THEN "BodyError" ELSE "ok"]_vars

\* A with block whose body raised has been left with that exception and its
\* event is destructed, an ancestor of it being set.
C12_Witness ==
    /\ Quiescent
    /\ \E t \in Threads : ret[t] = "BodyError"
    /\ \E g \in destructed : flag[ancestors[g][1]]

----------------------------------------------------------------------------
\* Thread t is blocked in wait() on a combination event whose combinator is
\* true of the flags of its ancestors, and no set or clear call is in
\* progress.
StuckWait(t) ==
    /\ At(t, "wait", "blocked")
    /\ kind[Top(t).g] \in ComboKinds
    /\ Combinator(kind[Top(t).g], ancestors[Top(t).g], flag)
    /\ \A u \in Threads : stack[u] = <<>> \/ stack[u][1].fn = "wait"

\* C13: a thread in wait() on a combination event does not stay blocked for
\* ever once set and clear calls have made the combinator true and no
\* further call follows; and wait() returns only when the flag is set, with
\* True.
C13_WaitReturns ==
    /\ \A t \in Threads : []<>~StuckWait(t)
    /\ [][\A t \in Threads :
            (At(t, "wait", "blocked") /\ stack'[t] # stack[t]) =>
                /\ flag[Top(t).g]
                /\ stack'[t] = <<>>
                /\ ret'[t] = "True"]_vars

\* A thread is blocked in wait() on a combination event that is clear while
\* the cascade of a set() of the other thread is about to set that event.
C13_Witness ==
    \E t, u \in Threads :
        /\ At(t, "wait", "blocked")
        /\ kind[Top(t).g] \in ComboKinds /\ ~flag[Top(t).g]
        /\ At(u, "_set", "acquire") /\ Top(u).g = Top(t).g

----------------------------------------------------------------------------
\* C19: whatever the interleaving of the set and clear calls on its
\* ancestors, the flag of an AllEvent changes from clear to set only if the
\* flags of all its ancestors were set together at one time during the
\* callback that sets it.  (A wait() on the AllEvent returns True only when
\* the flag is set, so only after such a time.)
C19_AllSetOnlyIfHeld ==
    [][\A g \in Gates :
          (kind[g] = "All" /\ ~flag[g] /\ flag'[g]) => g \in held]_vars

====
